---- MODULE Spec2Model ----
(***************************************************************************)
(* State-machine model of class AIO in IoT_Environment_Sensor/aio.py:      *)
(* connect(), post(feed, payload) and refresh_local_time(), executed by a  *)
(* single thread.  The radio (self._esp), the HTTP library (requests) and  *)
(* the real-time clock are the environment: every call into them is a     *)
(* step whose outcome (a value or a raised exception) is chosen            *)
(* nondeterministically.                                                   *)
(***************************************************************************)
EXTENDS Integers, Sequences, FiniteSets, TLC

VARIABLES
    settings,      \* settings.toml as getenv sees it: key -> "None" (unset) or a value
    pc,            \* position of the single thread of control
    ret,           \* position connect() returns to
    op,            \* the method the caller invoked: "none", "connect", "post", "refresh"
    is_connected,  \* self._esp.is_connected
    ap_attempts,   \* connect_AP calls made so far by the running connect(),
                   \* counted up to MaxApFails failures
    api_url,       \* local api_url of post / refresh_local_time
    payload,       \* argument payload of post
    tries,         \* local tries of post
    r,             \* local r of post: 0 is None, else an index into responses
    response,      \* local response of refresh_local_time: 0 is unbound/None
    responses,     \* every response object obtained in the running call
    times,         \* local times of refresh_local_time
    the_date,      \* local the_date
    the_time,      \* local the_time
    year_day,      \* local year_day
    week_day,      \* local week_day
    now,           \* local now (the struct_time), <<>> while unbound
    rtc_datetime,  \* rtc.RTC().datetime
    rtc_writes,    \* assignments to rtc.RTC().datetime made by the running call
    result,        \* how the running call ended
    log            \* radio / HTTP events of the running call, in order

vars == <<settings, pc, ret, op, is_connected, ap_attempts, api_url, payload, tries, r,
          response, responses, times, the_date, the_time, year_day, week_day,
          now, rtc_datetime, rtc_writes, result, log>>

postLocals == <<payload, tries, r>>
rltLocals  == <<response, times, the_date, the_time, year_day, week_day, now>>

\* ---------------------------------------------------------------- bounds
\* connect_AP failures counted within one connect() (further ones are not told apart)
MaxApFails == 2
\* space-delimited fields of a time-service reply
MaxFields == 4

\* ------------------------------------------------------------- constants
MaxTries == 5
HTTP_OK == 200

Feeds == {"temperature", "humidity"}
Payloads == {"p1", "p2"}
\* values of getenv('timezone'): unset, empty, set
Locations == {"None", "", "Europe/Paris"}
StatusCodes == {HTTP_OK, 404, 500}

\* the four settings the module requires
SettingKeys == {"CIRCUITPY_WIFI_SSID", "CIRCUITPY_WIFI_PASSWORD",
                "ADAFRUIT_AIO_USERNAME", "ADAFRUIT_AIO_KEY"}
\* getenv(key): None when the key is not in settings.toml
SettingValues == {"None", "set"}

NoResult == [kind |-> "none", value |-> FALSE, exc |-> "", guidance |-> FALSE]

\* ------------------------------------------------------- strings as text
\* A str is a sequence of one-character strings.
Digits == {"0", "1", "2", "3", "4", "5", "6", "7", "8", "9"}

DigitVal(c) ==
    CASE c = "0" -> 0 [] c = "1" -> 1 [] c = "2" -> 2 [] c = "3" -> 3
      [] c = "4" -> 4 [] c = "5" -> 5 [] c = "6" -> 6 [] c = "7" -> 7
      [] c = "8" -> 8 [] c = "9" -> 9

\* str.split(sep) with an explicit one-character separator
RECURSIVE Split(_, _)
Split(s, sep) ==
    IF \A i \in 1..Len(s) : s[i] # sep
    THEN <<s>>
    ELSE LET k == CHOOSE i \in 1..Len(s) :
                      s[i] = sep /\ \A j \in 1..(i - 1) : s[j] # sep
         IN  <<SubSeq(s, 1, k - 1)>> \o Split(SubSeq(s, k + 1, Len(s)), sep)

\* sep.join(parts)
RECURSIVE Join(_, _)
Join(parts, sep) ==
    IF Len(parts) = 0 THEN <<>>
    ELSE IF Len(parts) = 1 THEN parts[1]
    ELSE parts[1] \o <<sep>> \o Join(Tail(parts), sep)

\* whether int(s) returns (otherwise it raises ValueError)
IntOk(s) ==
    LET body == IF Len(s) > 0 /\ s[1] \in {"-", "+"} THEN Tail(s) ELSE s
    IN  Len(body) > 0 /\ \A i \in 1..Len(body) : body[i] \in Digits

RECURSIVE DigitsVal(_)
DigitsVal(s) ==
    IF Len(s) = 0 THEN 0
    ELSE 10 * DigitsVal(SubSeq(s, 1, Len(s) - 1)) + DigitVal(s[Len(s)])

\* int(s), for s with IntOk(s)
ToInt(s) ==
    IF s[1] = "-" THEN 0 - DigitsVal(Tail(s))
    ELSE IF s[1] = "+" THEN DigitsVal(Tail(s))
    ELSE DigitsVal(s)

\* [int(x) for x in s.split(sep)] unpacked into three names:
\* ValueError unless there are exactly three parts, each an int
ThreeIntsOk(s, sep) ==
    LET parts == Split(s, sep)
    IN  Len(parts) = 3 /\ \A i \in 1..3 : IntOk(parts[i])

ThreeInts(s, sep) ==
    LET parts == Split(s, sep)
    IN  <<ToInt(parts[1]), ToInt(parts[2]), ToInt(parts[3])>>

\* ------------------------------------------------- time-service replies
FieldStrings ==
    { <<>>,
      <<"7">>,
      <<"x">>,
      <<"1", "-", "2", "-", "3">>,
      <<"4", ":", "5", ":", "0", "6", ".", "8">> }

FieldLists == UNION { [1..n -> FieldStrings] : n \in 1..MaxFields }

\* a reply in the layout of TIME_SERVICE_STRFTIME:
\* "2023-05-01 14:30:00.123 121 1 +0000 UTC"
WellFormedReply ==
    <<"2", "0", "2", "3", "-", "0", "5", "-", "0", "1", " ",
      "1", "4", ":", "3", "0", ":", "0", "0", ".", "1", "2", "3", " ",
      "1", "2", "1", " ", "1", " ", "+", "0", "0", "0", "0", " ",
      "U", "T", "C">>

Bodies == { Join(f, " ") : f \in FieldLists } \cup {WellFormedReply}

\* ----------------------------------------------------------- bookkeeping
Append1(e) == log' = Append(log, e)

Count(s, e) == Cardinality({ i \in 1..Len(s) : s[i] = e })

Returned(v) == [kind |-> "return", value |-> v, exc |-> "", guidance |-> FALSE]
Raised(e, g) == [kind |-> "raise", value |-> FALSE, exc |-> e, guidance |-> g]

\* ------------------------------------------------------------------ Init
Init ==
    /\ settings \in [SettingKeys -> SettingValues]
    /\ pc = "import"
    /\ ret = "idle"
    /\ op = "none"
    /\ is_connected = FALSE
    /\ ap_attempts = 0
    /\ api_url = <<>>
    /\ payload = ""
    /\ tries = 0
    /\ r = 0
    /\ response = 0
    /\ responses = <<>>
    /\ times = <<>>
    /\ the_date = <<>>
    /\ the_time = <<>>
    /\ year_day = 0
    /\ week_day = 0
    /\ now = <<>>
    /\ rtc_datetime = <<>>
    /\ rtc_writes = 0
    /\ result = NoResult
    /\ log = <<>>

\* --------------------------------------------------------------- startup
\* the test with one of the four names left out of the list
MissingSetting_keyForgotten(s) ==
    \E k \in SettingKeys \ {"ADAFRUIT_AIO_KEY"} : s[k] = "None"

\* None in [ssid, password, aio_username, aio_key]
MissingSetting(s) == \E k \in SettingKeys : s[k] = "None"

\* the module body: the four getenv calls, then the test that raises
\* RuntimeError; the import fails and class AIO is never defined
ImportModule ==
    /\ pc = "import"
    /\ IF MissingSetting(settings)
       THEN /\ pc' = "fatal"
            /\ result' = Raised("RuntimeError", FALSE)
       ELSE /\ pc' = "loaded"
            /\ UNCHANGED result
    /\ UNCHANGED <<settings, ret, op, is_connected, ap_attempts, api_url,
                   postLocals, rltLocals, responses, rtc_datetime, rtc_writes,
                   log>>

\* AIO(): the radio is set up, not yet associated
Construct ==
    /\ pc = "loaded"
    /\ is_connected' = FALSE
    /\ pc' = "idle"
    /\ UNCHANGED <<settings, ret, op, ap_attempts, api_url, postLocals,
                   rltLocals, responses, rtc_datetime, rtc_writes, result, log>>

\* --------------------------------------------------------------- connect
\* a call of self.connect() that continues at `back` when it returns
EnterConnect(back, before) ==
    /\ pc' = "connect_test"
    /\ ret' = back
    /\ ap_attempts' = 0
    /\ log' = log \o before \o <<"connect">>

\* caller invokes aio.connect()
CallConnect ==
    /\ pc = "idle"
    /\ op' = "connect"
    /\ EnterConnect("connect_done", <<>>)
    /\ UNCHANGED <<settings, is_connected, api_url, postLocals, rltLocals, responses,
                   rtc_datetime, rtc_writes, result>>

\* ConnectTest as a do-while: connect_AP is tried once before the first test
ConnectTest_doWhile ==
    /\ pc = "connect_test"
    /\ IF is_connected /\ ap_attempts > 0
       THEN /\ pc' = ret
            /\ ap_attempts' = 0
            /\ Append1("connected")
       ELSE /\ pc' = "connect_AP"
            /\ UNCHANGED <<ap_attempts, log>>
    /\ UNCHANGED <<settings, ret, op, is_connected, api_url, postLocals,
                   rltLocals, responses, rtc_datetime, rtc_writes, result>>

\* while not self._esp.is_connected: ... (falls off the loop and returns)
ConnectTest ==
    /\ pc = "connect_test"
    /\ IF is_connected
       THEN /\ pc' = ret
            /\ ap_attempts' = 0
            /\ Append1("connected")
       ELSE /\ pc' = "connect_AP"
            /\ UNCHANGED <<ap_attempts, log>>
    /\ UNCHANGED <<settings, ret, op, is_connected, api_url, postLocals,
                   rltLocals, responses, rtc_datetime, rtc_writes, result>>

\* connect_AP returns without the radio having associated
ConnectAPOk_notAssociated ==
    /\ pc = "connect_AP"
    /\ ap_attempts' = IF ap_attempts < MaxApFails THEN ap_attempts + 1
                                                 ELSE ap_attempts
    /\ pc' = "connect_test"
    /\ UNCHANGED <<settings, ret, op, is_connected, api_url, postLocals,
                   rltLocals, responses, rtc_datetime, rtc_writes, result, log>>

\* self._esp.connect_AP(ssid, password) returns
ConnectAPOk ==
    /\ pc = "connect_AP"
    /\ is_connected' = TRUE
    /\ ap_attempts' = ap_attempts + 1
    /\ pc' = "connect_test"
    /\ UNCHANGED <<settings, ret, op, api_url, postLocals, rltLocals, responses,
                   rtc_datetime, rtc_writes, result, log>>

\* ConnectAPFail with `break` in place of `continue`: connect() gives up
ConnectAPFail_giveUp ==
    /\ pc = "connect_AP"
    /\ ap_attempts < MaxApFails
    /\ ap_attempts' = 0
    /\ pc' = ret
    /\ Append1("connected")
    /\ UNCHANGED <<settings, ret, op, is_connected, api_url, postLocals, rltLocals,
                   responses, rtc_datetime, rtc_writes, result>>

\* self._esp.connect_AP raises RuntimeError: logged, continue
ConnectAPFail ==
    /\ pc = "connect_AP"
    /\ ap_attempts' = IF ap_attempts < MaxApFails THEN ap_attempts + 1
                                                 ELSE ap_attempts
    /\ pc' = "connect_test"
    /\ UNCHANGED <<settings, ret, op, is_connected, api_url, postLocals, rltLocals,
                   responses, rtc_datetime, rtc_writes, result, log>>

\* the caller's connect() call returns None
ConnectDone ==
    /\ pc = "connect_done"
    /\ result' = Returned(FALSE)
    /\ Append1("return")
    /\ pc' = "done"
    /\ UNCHANGED <<settings, ret, op, is_connected, ap_attempts, api_url, postLocals,
                   rltLocals, responses, rtc_datetime, rtc_writes>>

\* ------------------------------------------------------------------ post
\* caller invokes aio.post(feed, payload): api_url, auth_header, self.connect()
CallPost(f, p) ==
    /\ pc = "idle"
    /\ op' = "post"
    /\ api_url' = <<"feeds", f, "data">>
    /\ payload' = p
    /\ EnterConnect("post_init", <<>>)
    /\ UNCHANGED <<settings, is_connected, tries, r, rltLocals, responses, rtc_datetime,
                   rtc_writes, result>>

\* r = None; tries = 0
PostInit ==
    /\ pc = "post_init"
    /\ r' = 0
    /\ tries' = 0
    /\ pc' = "post_loop"
    /\ UNCHANGED <<settings, ret, op, is_connected, ap_attempts, api_url, payload,
                   rltLocals, responses, rtc_datetime, rtc_writes, result, log>>

\* PostLoop with the budget test off by one (a sixth attempt is made)
PostLoop_sixTries ==
    /\ pc = "post_loop"
    /\ IF tries = MaxTries + 1
       THEN /\ result' = Returned(FALSE)
            /\ pc' = "done"
            /\ Append1("return")
            /\ UNCHANGED tries
       ELSE /\ tries' = tries + 1
            /\ pc' = "post_request"
            /\ UNCHANGED <<result, log>>
    /\ UNCHANGED <<settings, ret, op, is_connected, ap_attempts, api_url, payload, r,
                   rltLocals, responses, rtc_datetime, rtc_writes>>

\* while True: if tries == 5: return False; tries += 1
PostLoop ==
    /\ pc = "post_loop"
    /\ IF tries = MaxTries
       THEN /\ result' = Returned(FALSE)
            /\ pc' = "done"
            /\ Append1("return")
            /\ UNCHANGED tries
       ELSE /\ tries' = tries + 1
            /\ pc' = "post_request"
            /\ UNCHANGED <<result, log>>
    /\ UNCHANGED <<settings, ret, op, is_connected, ap_attempts, api_url, payload, r,
                   rltLocals, responses, rtc_datetime, rtc_writes>>

\* r = requests.post(...) returns a response with status code s
PostRequestOk(s) ==
    /\ pc = "post_request"
    /\ responses' = Append(responses, [status |-> s, closed |-> FALSE])
    /\ r' = Len(responses) + 1
    /\ log' = log \o <<"POST", "response">>
    /\ pc' = "post_json"
    /\ UNCHANGED <<settings, ret, op, is_connected, ap_attempts, api_url, payload, tries,
                   rltLocals, rtc_datetime, rtc_writes, result>>

\* PostRequestFail without the except clause: the RuntimeError leaves post
PostRequestFail_propagate ==
    /\ pc = "post_request"
    /\ log' = log \o <<"POST", "error", "raise">>
    /\ result' = Raised("RuntimeError", FALSE)
    /\ pc' = "done"
    /\ UNCHANGED <<settings, ret, op, is_connected, ap_attempts, api_url, postLocals,
                   rltLocals, responses, rtc_datetime, rtc_writes>>

\* requests.post(...) raises RuntimeError: r keeps its value
PostRequestFail ==
    /\ pc = "post_request"
    /\ log' = log \o <<"POST", "error">>
    /\ pc' = "post_except"
    /\ UNCHANGED <<settings, ret, op, is_connected, ap_attempts, api_url, postLocals,
                   rltLocals, responses, rtc_datetime, rtc_writes, result>>

\* the status is logged, r.json() reads the body and returns; break
PostJsonOk ==
    /\ pc = "post_json"
    /\ pc' = "post_close"
    /\ UNCHANGED <<settings, ret, op, is_connected, ap_attempts, api_url, postLocals,
                   rltLocals, responses, rtc_datetime, rtc_writes, result, log>>

\* r.json() raises RuntimeError while reading the body from the radio:
\* still inside the try, so the except clause of post takes it
PostJsonFail ==
    /\ pc = "post_json"
    /\ Append1("error")
    /\ pc' = "post_except"
    /\ UNCHANGED <<settings, ret, op, is_connected, ap_attempts, api_url, postLocals,
                   rltLocals, responses, rtc_datetime, rtc_writes, result>>

\* r.json() raises ValueError (the body is not JSON): not a RuntimeError,
\* so it leaves post
PostJsonValueError ==
    /\ pc = "post_json"
    /\ result' = Raised("ValueError", FALSE)
    /\ Append1("raise")
    /\ pc' = "done"
    /\ UNCHANGED <<settings, ret, op, is_connected, ap_attempts, api_url, postLocals,
                   rltLocals, responses, rtc_datetime, rtc_writes>>

\* PostExcept without self._esp.reset()
PostExcept_noReset ==
    /\ pc = "post_except"
    /\ EnterConnect("post_loop", <<>>)
    /\ UNCHANGED <<settings, op, is_connected, api_url, postLocals, rltLocals, responses,
                   rtc_datetime, rtc_writes, result>>

\* PostExcept without self.connect() after the reset
PostExcept_noConnect ==
    /\ pc = "post_except"
    /\ is_connected' = FALSE
    /\ Append1("reset")
    /\ pc' = "post_loop"
    /\ UNCHANGED <<settings, ret, op, ap_attempts, api_url, postLocals, rltLocals,
                   responses, rtc_datetime, rtc_writes, result>>

\* except RuntimeError: self._esp.reset(); self.connect(); then loop again
PostExcept ==
    /\ pc = "post_except"
    /\ is_connected' = FALSE
    /\ EnterConnect("post_loop", <<"reset">>)
    /\ UNCHANGED <<settings, op, api_url, postLocals, rltLocals, responses,
                   rtc_datetime, rtc_writes, result>>

\* r.close()
PostClose ==
    /\ pc = "post_close"
    /\ responses' = [responses EXCEPT ![r].closed = TRUE]
    /\ Append1("close")
    /\ pc' = "post_return"
    /\ UNCHANGED <<settings, ret, op, is_connected, ap_attempts, api_url, postLocals,
                   rltLocals, rtc_datetime, rtc_writes, result>>

\* return r.status_code == 200
PostReturn ==
    /\ pc = "post_return"
    /\ result' = Returned(responses[r].status = HTTP_OK)
    /\ Append1("return")
    /\ pc' = "done"
    /\ UNCHANGED <<settings, ret, op, is_connected, ap_attempts, api_url, postLocals,
                   rltLocals, responses, rtc_datetime, rtc_writes>>

\* ---------------------------------------------------- refresh_local_time
\* the except clause of refresh_local_time's try: KeyError is re-raised as a
\* KeyError carrying the timezone guidance, any other exception passes through
RltExcept(exc) ==
    IF exc = "KeyError" THEN Raised("KeyError", TRUE) ELSE Raised(exc, FALSE)

\* caller invokes aio.refresh_local_time(): location = getenv('timezone'),
\* api_url with or without &tz=, then (inside the try) self.connect()
CallRefresh(location) ==
    /\ pc = "idle"
    /\ op' = "refresh"
    /\ api_url' = IF location \notin {"None", ""}
                  THEN <<"time", "tz=" \o location, "fmt">>
                  ELSE <<"time", "fmt">>
    /\ EnterConnect("rlt_get", <<>>)
    /\ UNCHANGED <<settings, is_connected, postLocals, rltLocals, responses,
                   rtc_datetime, rtc_writes, result>>

\* response = requests.get(api_url) returns a response with status code s
RltGetOk(s) ==
    /\ pc = "rlt_get"
    /\ responses' = Append(responses, [status |-> s, closed |-> FALSE])
    /\ response' = Len(responses) + 1
    /\ log' = log \o <<"GET", "response">>
    /\ pc' = "rlt_text"
    /\ UNCHANGED <<settings, ret, op, is_connected, ap_attempts, api_url, postLocals,
                   times, the_date, the_time, year_day, week_day, now,
                   rtc_datetime, rtc_writes, result>>

\* RltGetFail with post's recovery copied in: the radio is reset first
RltGetFail_reset ==
    /\ pc = "rlt_get"
    /\ is_connected' = FALSE
    /\ result' = Raised("RuntimeError", FALSE)
    /\ log' = log \o <<"GET", "error", "reset", "raise">>
    /\ pc' = "done"
    /\ UNCHANGED <<settings, ret, op, ap_attempts, api_url, postLocals, rltLocals,
                   responses, rtc_datetime, rtc_writes>>

\* requests.get(api_url) raises RuntimeError: not a KeyError, it leaves the call
RltGetFail ==
    /\ pc = "rlt_get"
    /\ result' = RltExcept("RuntimeError")
    /\ log' = log \o <<"GET", "error", "raise">>
    /\ pc' = "done"
    /\ UNCHANGED <<settings, ret, op, is_connected, ap_attempts, api_url, postLocals,
                   rltLocals, responses, rtc_datetime, rtc_writes>>

\* times = response.text.split(' ')
RltText ==
    /\ pc = "rlt_text"
    /\ \E text \in Bodies : times' = Split(text, " ")
    /\ pc' = "rlt_fields"
    /\ UNCHANGED <<settings, ret, op, is_connected, ap_attempts, api_url, postLocals,
                   response, the_date, the_time, year_day, week_day, now,
                   responses, rtc_datetime, rtc_writes, result, log>>

\* response.text raises RuntimeError while reading the body from the radio
RltTextFail ==
    /\ pc = "rlt_text"
    /\ result' = RltExcept("RuntimeError")
    /\ log' = log \o <<"error", "raise">>
    /\ pc' = "done"
    /\ UNCHANGED <<settings, ret, op, is_connected, ap_attempts, api_url, postLocals,
                   rltLocals, responses, rtc_datetime, rtc_writes>>

\* the exception, if any, of
\*   the_date = times[0]; the_time = times[1]
\*   year_day = int(times[2]); week_day = int(times[3])
\* (a list index out of range is IndexError, a bad int() is ValueError)
FieldsError(t) ==
    IF Len(t) < 2 THEN "IndexError"
    ELSE IF Len(t) < 3 THEN "IndexError"
    ELSE IF ~IntOk(t[3]) THEN "ValueError"
    ELSE IF Len(t) < 4 THEN "IndexError"
    ELSE IF ~IntOk(t[4]) THEN "ValueError"
    ELSE "none"

\* RltFields that asks the time service again when a field is missing
RltFields_retry ==
    /\ pc = "rlt_fields"
    /\ IF FieldsError(times) = "none"
       THEN /\ the_date' = times[1]
            /\ the_time' = times[2]
            /\ year_day' = ToInt(times[3])
            /\ week_day' = ToInt(times[4])
            /\ pc' = "rlt_parse"
       ELSE /\ pc' = "rlt_get"
            /\ UNCHANGED <<the_date, the_time, year_day, week_day>>
    /\ UNCHANGED <<settings, ret, op, is_connected, ap_attempts, api_url, postLocals,
                   response, times, now, responses, rtc_datetime, rtc_writes,
                   result, log>>

\* RltFields with the two day fields taken from each other's position
RltFields_daysSwapped ==
    /\ pc = "rlt_fields"
    /\ IF FieldsError(times) = "none"
       THEN /\ the_date' = times[1]
            /\ the_time' = times[2]
            /\ year_day' = ToInt(times[4])
            /\ week_day' = ToInt(times[3])
            /\ pc' = "rlt_parse"
            /\ UNCHANGED <<result, log>>
       ELSE /\ result' = RltExcept(FieldsError(times))
            /\ Append1("raise")
            /\ pc' = "done"
            /\ UNCHANGED <<the_date, the_time, year_day, week_day>>
    /\ UNCHANGED <<settings, ret, op, is_connected, ap_attempts, api_url, postLocals,
                   response, times, now, responses, rtc_datetime, rtc_writes>>

\* the rest of the try block: the four fields are taken from times
RltFields ==
    /\ pc = "rlt_fields"
    /\ IF FieldsError(times) = "none"
       THEN /\ the_date' = times[1]
            /\ the_time' = times[2]
            /\ year_day' = ToInt(times[3])
            /\ week_day' = ToInt(times[4])
            /\ pc' = "rlt_parse"
            /\ UNCHANGED <<result, log>>
       ELSE /\ result' = RltExcept(FieldsError(times))
            /\ Append1("raise")
            /\ pc' = "done"
            /\ UNCHANGED <<the_date, the_time, year_day, week_day>>
    /\ UNCHANGED <<settings, ret, op, is_connected, ap_attempts, api_url, postLocals,
                   response, times, now, responses, rtc_datetime, rtc_writes>>

\* year, month, mday = [int(x) for x in the_date.split('-')]
\* the_time = the_time.split('.')[0]
\* hours, minutes, seconds = [int(x) for x in the_time.split(':')]
\* now = time.struct_time((year, month, mday, hours, minutes, seconds,
\*                         week_day, year_day, is_dst))
RltParse ==
    /\ pc = "rlt_parse"
    /\ LET hms == Split(the_time, ".")[1]
       IN  IF ThreeIntsOk(the_date, "-") /\ ThreeIntsOk(hms, ":")
           THEN /\ the_time' = hms
                /\ now' = ThreeInts(the_date, "-") \o ThreeInts(hms, ":")
                              \o <<week_day, year_day, "None">>
                /\ pc' = "rlt_rtc"
                /\ UNCHANGED <<result, log>>
           ELSE /\ result' = Raised("ValueError", FALSE)
                /\ Append1("raise")
                /\ pc' = "done"
                /\ the_time' = IF ThreeIntsOk(the_date, "-") THEN hms ELSE the_time
                /\ UNCHANGED now
    /\ UNCHANGED <<settings, ret, op, is_connected, ap_attempts, api_url, postLocals,
                   response, times, the_date, year_day, week_day, responses,
                   rtc_datetime, rtc_writes>>

\* RltSetClock writing a record whose dst flag is -1 instead of None
RltSetClock_isDst ==
    /\ pc = "rlt_rtc"
    /\ rtc_datetime' = SubSeq(now, 1, 8) \o <<"-1">>
    /\ rtc_writes' = rtc_writes + 1
    /\ pc' = "rlt_close"
    /\ UNCHANGED <<settings, ret, op, is_connected, ap_attempts, api_url, postLocals,
                   rltLocals, responses, result, log>>

\* rtc.RTC().datetime = now
RltSetClock ==
    /\ pc = "rlt_rtc"
    /\ rtc_datetime' = now
    /\ rtc_writes' = rtc_writes + 1
    /\ pc' = "rlt_close"
    /\ UNCHANGED <<settings, ret, op, is_connected, ap_attempts, api_url, postLocals,
                   rltLocals, responses, result, log>>

\* response.close(); response = None; gc.collect()
RltClose ==
    /\ pc = "rlt_close"
    /\ responses' = [responses EXCEPT ![response].closed = TRUE]
    /\ response' = 0
    /\ Append1("close")
    /\ pc' = "rlt_return"
    /\ UNCHANGED <<settings, ret, op, is_connected, ap_attempts, api_url, postLocals,
                   times, the_date, the_time, year_day, week_day, now,
                   rtc_datetime, rtc_writes, result>>

\* return now
RltReturn ==
    /\ pc = "rlt_return"
    /\ result' = Returned(now)
    /\ Append1("return")
    /\ pc' = "done"
    /\ UNCHANGED <<settings, ret, op, is_connected, ap_attempts, api_url, postLocals,
                   rltLocals, responses, rtc_datetime, rtc_writes>>

\* the caller takes the outcome; the frame of the call is dropped
Finish ==
    /\ pc = "done"
    /\ pc' = "idle"
    /\ ret' = "idle"
    /\ op' = "none"
    /\ ap_attempts' = 0
    /\ api_url' = <<>>
    /\ payload' = ""
    /\ tries' = 0
    /\ r' = 0
    /\ response' = 0
    /\ responses' = <<>>
    /\ times' = <<>>
    /\ the_date' = <<>>
    /\ the_time' = <<>>
    /\ year_day' = 0
    /\ week_day' = 0
    /\ now' = <<>>
    /\ rtc_writes' = 0
    /\ result' = NoResult
    /\ log' = <<>>
    /\ UNCHANGED <<settings, is_connected, rtc_datetime>>

Next ==
    \/ ImportModule
    \/ Construct
    \/ CallConnect
    \/ ConnectTest
    \/ ConnectAPOk
    \/ ConnectAPFail
    \/ ConnectDone
    \/ \E f \in Feeds, p \in Payloads : CallPost(f, p)
    \/ PostInit
    \/ PostLoop
    \/ \E s \in StatusCodes : PostRequestOk(s)
    \/ PostRequestFail
    \/ PostJsonOk
    \/ PostJsonFail
    \/ PostJsonValueError
    \/ PostExcept
    \/ PostClose
    \/ PostReturn
    \/ \E location \in Locations : CallRefresh(location)
    \/ \E s \in StatusCodes : RltGetOk(s)
    \/ RltGetFail
    \/ RltText
    \/ RltTextFail
    \/ RltFields
    \/ RltParse
    \/ RltSetClock
    \/ RltClose
    \/ RltReturn
    \/ Finish

Spec == Init /\ [][Next]_vars

\* a step of the running call (the thread always runs on; the caller is free
\* to make no further call)
Step ==
    \/ ConnectTest
    \/ ConnectAPOk
    \/ ConnectAPFail
    \/ ConnectDone
    \/ PostInit
    \/ PostLoop
    \/ \E s \in StatusCodes : PostRequestOk(s)
    \/ PostRequestFail
    \/ PostJsonOk
    \/ PostJsonFail
    \/ PostJsonValueError
    \/ PostExcept
    \/ PostClose
    \/ PostReturn

\* the thread keeps executing, with no assumption on the radio
RunSpec == Spec /\ WF_vars(Step)

\* and the radio associates eventually if connect_AP is tried again and again
LiveSpec == RunSpec /\ SF_vars(ConnectAPOk)

\* ================================================================ claims
ConnectPcs == {"connect_test", "connect_AP"}

PostDone == op = "post" /\ pc = "done"

\* C1: one call of post issues at most 5 POST attempts; when all 5 attempts
\* end in a RuntimeError the call returns False and no 6th attempt is made.
C1_AtMostFiveAttempts ==
    op = "post" =>
        /\ Count(log, "POST") <= MaxTries
        /\ (pc = "done" /\ Count(log, "error") = MaxTries) =>
               /\ result = Returned(FALSE)
               /\ Count(log, "POST") = MaxTries

C1_Witness == PostDone /\ Count(log, "error") = MaxTries

\* C2 (as claimed): when post returns, its result is True if and only if some
\* attempt of the call received a response whose status code is 200.
C2_TrueIffSome200 ==
    (PostDone /\ result.kind = "return") =>
        (result.value <=> \E i \in 1..Len(responses) : responses[i].status = HTTP_OK)

\* C3: in post, an attempt that ends in a RuntimeError is followed by one radio
\* reset, then one connect() that returns, and then by the next attempt; the
\* call ends after an error only when the 5 attempts are used up.
C3_ErrorThenResetThenConnect ==
    op = "post" =>
        \A i \in 1..Len(log) :
            log[i] = "error" =>
                /\ (i + 1 <= Len(log)) => log[i + 1] = "reset"
                /\ (i + 2 <= Len(log)) => log[i + 2] = "connect"
                /\ (i + 3 <= Len(log)) => log[i + 3] = "connected"
                /\ (i + 4 <= Len(log)) =>
                       \/ log[i + 4] = "POST"
                       \/ /\ log[i + 4] = "return"
                          /\ Count(SubSeq(log, 1, i), "POST") = MaxTries

C3_Witness ==
    /\ op = "post"
    /\ \E i \in 1..Len(log) :
           log[i] = "error" /\ i + 4 <= Len(log) /\ log[i + 4] = "POST"

\* C4 (as claimed): in post, once an attempt has received an HTTP response, no
\* further POST attempt is issued in that call.
C4_NoPostAfterResponse ==
    op = "post" =>
        \A i \in 1..Len(log) : \A j \in (i + 1)..Len(log) :
            ~(log[i] = "response" /\ log[j] = "POST")

\* C5: connect() leaves its loop only from the loop test and only when the
\* radio is associated, it returns at once when the test sees the radio
\* associated, and after a failed connect_AP it always tests and tries again.
C5_ConnectReturnsOnlyAssociated ==
    [][ /\ (pc \in ConnectPcs /\ pc' \notin ConnectPcs) =>
               (pc = "connect_test" /\ is_connected /\ is_connected' /\ pc' = ret)
        /\ (pc = "connect_test" /\ is_connected) => pc' = ret
        /\ (pc = "connect_test" /\ ~is_connected) => pc' = "connect_AP"
        /\ pc = "connect_AP" => pc' = "connect_test"
      ]_vars

C5_Witness == pc = "connect_test" /\ is_connected /\ ap_attempts = MaxApFails + 1

\* C6: a RuntimeError of a post attempt never leaves post: every failed attempt
\* is followed by another attempt or by the result False.
C6_TransportErrorNotPropagated ==
    op = "post" =>
        /\ result.exc # "RuntimeError"
        /\ pc = "done" =>
               \A i \in 1..Len(log) :
                   log[i] = "error" =>
                       \/ \E j \in (i + 1)..Len(log) : log[j] = "POST"
                       \/ result = Returned(FALSE)

C6_Witness ==
    PostDone /\ Count(log, "error") >= 1 /\ result = Returned(TRUE)

\* C7 (as claimed): whenever post returns, every response object obtained by an
\* attempt of the call has been closed.
C7_ResponsesClosedOnReturn ==
    (PostDone /\ result.kind = "return") =>
        \A i \in 1..Len(responses) : responses[i].closed

\* C8: every POST of post and the GET of refresh_local_time is preceded by a
\* connect() that returned with no radio reset in between, and the radio is
\* associated when the request is issued.
C8_RequestAfterConnect ==
    /\ \A i \in 1..Len(log) :
           log[i] \in {"POST", "GET"} =>
               \E j \in 1..(i - 1) :
                   /\ log[j] = "connected"
                   /\ \A k \in j..i : log[k] # "reset"
    /\ pc \in {"post_request", "rlt_get"} => is_connected

C8_Witness ==
    /\ pc = "post_request"
    /\ Count(log, "reset") >= 1
    /\ Count(log, "POST") >= 1

\* C9 (as claimed): when the reply has fewer than the four space-delimited
\* fields, refresh_local_time fails with the KeyError that carries the
\* timezone guidance.
C9_MissingFieldsRaiseGuidance ==
    (op = "refresh" /\ pc = "done" /\ Len(times) \in 1..3) =>
        result = Raised("KeyError", TRUE)

\* C10 (as claimed): only the steps of connect change the connection state.
C10_OnlyConnectMutates ==
    [][ is_connected' # is_connected => pc \in ConnectPcs ]_vars

\* C10 (amended): the connection state is changed only by connect (to
\* associated) and by the radio reset of post's RuntimeError handler (to not
\* associated); no other step of post or refresh_local_time changes it.
C10_OnlyConnectAndResetMutate ==
    [][ is_connected' # is_connected =>
            \/ pc = "connect_AP" /\ is_connected'
            \/ pc = "post_except" /\ ~is_connected' ]_vars

C10_Witness == op = "post" /\ Count(log, "reset") >= 1 /\ ~is_connected

\* C11: when one of the four required settings is missing, the import ends in
\* a RuntimeError and no client is ever constructed; when all four are present
\* startup does not fail.
C11_MissingSettingIsFatal ==
    /\ (\E k \in SettingKeys : settings[k] = "None") =>
           /\ pc \in {"import", "fatal"}
           /\ op = "none"
    /\ (\A k \in SettingKeys : settings[k] # "None") => pc # "fatal"
    /\ pc = "fatal" => result = Raised("RuntimeError", FALSE)

C11_Witness ==
    /\ pc = "fatal"
    /\ Cardinality({ k \in SettingKeys : settings[k] = "None" }) = 1
    /\ settings["ADAFRUIT_AIO_KEY"] = "None"

\* the fields of a well-formed reply, as the time service sends them
WellFormedFields ==
    << <<"2", "0", "2", "3", "-", "0", "5", "-", "0", "1">>,
       <<"1", "4", ":", "3", "0", ":", "0", "0", ".", "1", "2", "3">>,
       <<"1", "2", "1">>, <<"1">>, <<"+", "0", "0", "0", "0">>,
       <<"U", "T", "C">> >>

\* C12: for the reply "2023-05-01 14:30:00.123 121 1 +0000 UTC" the call returns
\* year 2023, month 5, day 1, hour 14, minute 30, second 0, weekday 1 and
\* day-of-year 121 (struct_time order: ..., tm_wday, tm_yday, tm_isdst), and it
\* never fails once that reply has been read.
C12_WellFormedReplyParsed ==
    (op = "refresh" /\ times = WellFormedFields) =>
        /\ result.kind # "raise"
        /\ pc \in {"rlt_rtc", "rlt_close", "rlt_return", "done"} =>
               now = <<2023, 5, 1, 14, 30, 0, 1, 121, "None">>
        /\ pc = "done" =>
               result = Returned(<<2023, 5, 1, 14, 30, 0, 1, 121, "None">>)

C12_Witness ==
    /\ op = "refresh"
    /\ pc = "done"
    /\ times = WellFormedFields
    /\ result.kind = "return"

\* C13: if the radio associates eventually whenever connect() keeps trying,
\* every call of post comes to its end.
C13_PostEventuallyEnds == (op = "post") ~> (op = "post" /\ pc = "done")

\* C13: the same without the assumption on the radio (connect() may spin)
C13_PostEndsUnconditionally == (op = "post" /\ pc = "post_except") ~> (pc = "done")

C13_Witness ==
    /\ PostDone
    /\ result.kind = "return"
    /\ Count(log, "connected") = MaxTries + 1

RadioEvents == {"reset", "connect", "connected"}

\* the last radio event of a log, "none" when there is none
LastRadioEvent(l) ==
    IF \A i \in 1..Len(l) : l[i] \notin RadioEvents THEN "none"
    ELSE l[CHOOSE i \in 1..Len(l) :
               l[i] \in RadioEvents /\ \A j \in (i + 1)..Len(l) : l[j] \notin RadioEvents]

\* C14: a call of refresh_local_time issues exactly one GET: a reply with a
\* missing or malformed field ends the call with an exception, it is not asked
\* for again, and the call never resets the radio.
C14_OneGetNoRetry ==
    op = "refresh" =>
        /\ Count(log, "GET") <= 1
        /\ Count(log, "reset") = 0
        /\ pc = "done" => Count(log, "GET") = 1
        /\ (pc = "done" /\ Len(times) >= 1 /\ FieldsError(times) # "none") =>
               result.kind = "raise"

C14_Witness ==
    /\ op = "refresh"
    /\ pc = "done"
    /\ Len(times) = 2
    /\ result.kind = "raise"

\* C15: when post returns, the radio is associated and the last radio operation
\* of the call is a connect() that returned: no reset follows the last connect,
\* also after the 5th failed attempt.
C15_ReturnsConnected ==
    (PostDone /\ result.kind = "return") =>
        /\ is_connected
        /\ LastRadioEvent(log) = "connected"

C15_Witness ==
    /\ PostDone
    /\ result = Returned(FALSE)
    /\ Count(log, "reset") = MaxTries
    /\ is_connected

\* C16 (as claimed): in a call of post the resets are as many as the attempts
\* that ended in a RuntimeError (at most 5), and an attempt that received an
\* HTTP response causes no reset and no reconnect.
C16_ResetsOnlyAfterFailedRequests ==
    op = "post" =>
        /\ Count(log, "reset") <= MaxTries
        /\ pc = "done" => Count(log, "reset") = Count(log, "error")
        /\ \A i \in 1..Len(log) : \A j \in (i + 1)..Len(log) :
               (log[i] = "response" /\ log[j] \in {"reset", "connect"}) =>
                   \E k \in (i + 1)..(j - 1) : log[k] = "POST"

\* C17: the clock is written at most once per call of refresh_local_time, only
\* by the step that follows the complete parse and with the record just built;
\* a failed call leaves the clock as it was and a successful call returns the
\* record it wrote.
C17_ClockWrittenOnceAfterParse ==
    /\ [](op = "refresh" =>
              /\ rtc_writes <= 1
              /\ (pc = "done" /\ result.kind = "raise") => rtc_writes = 0
              /\ (pc = "done" /\ result.kind = "return") =>
                     (rtc_writes = 1 /\ rtc_datetime = result.value))
    /\ [][ (rtc_datetime' # rtc_datetime \/ rtc_writes' > rtc_writes) =>
               /\ op = "refresh"
               /\ pc = "rlt_rtc"
               /\ Len(now) = 9
               /\ rtc_datetime' = now
               /\ rtc_writes' = rtc_writes + 1 ]_vars

C17_Witness ==
    /\ op = "refresh"
    /\ pc = "done"
    /\ result.kind = "return"
    /\ rtc_writes = 1

\* C18: connect() entered with the radio associated makes no connect_AP call
\* and returns with the radio state unchanged; connect_AP is only ever called
\* with the radio not associated.
C18_ConnectIdempotent ==
    /\ [](pc = "connect_AP" => ~is_connected)
    /\ [][ (pc = "connect_test" /\ is_connected /\ ap_attempts = 0) =>
               /\ pc' = ret
               /\ is_connected'
               /\ ap_attempts' = 0 ]_vars

C18_Witness ==
    /\ op = "connect"
    /\ pc = "connect_test"
    /\ is_connected
    /\ ap_attempts = 0
====
